---- MODULE Spec2Model ----
(***************************************************************************)
(* Case store of the legal case-management application (src/App.tsx) and   *)
(* the Spreadsheet component state that feeds it (src/unnamed/part_002).   *)
(*                                                                         *)
(* Strings that the code trims or lower-cases (process numbers, user       *)
(* names) are sequences of one-character strings so that trim() and        *)
(* toLowerCase() are computed.  Other strings are opaque.                  *)
(***************************************************************************)
EXTENDS Integers, Sequences, FiniteSets, TLC

VARIABLES
    currentUser,      \* App state currentUser (NoUser before login)
    users,            \* App state users
    cases,            \* App state cases
    lastCaseId,       \* App ref lastCaseId.current
    pending,          \* FileReader reads in flight, with the closures of their callbacks
    editingCase,      \* Spreadsheet state editingCase (NoCase when the modal is closed)
    isMultiEditMode,  \* Spreadsheet state isMultiEditMode
    draftCases,       \* Spreadsheet state draftCases
    modifiedCaseIds,  \* Spreadsheet state modifiedCaseIds
    alert,            \* the last message shown by window.alert
    clock,            \* the machine's clock and time zone, as new Date() reads them
    deadlineStatus,   \* the last call of getDeadlineStatus and what it returned
    database,         \* the server's database.json: whether it exists, whether it
                      \* can be read, what its content is, and its text
    loaded,           \* the snapshot that the last GET /api/db returned
    httpStatus,       \* the status of the server's last answer (0 before the first)
    localStorage      \* the items under legal_users_data and legal_cases_data

\* alert holds the message of the last step, NoAlert when the step showed none
vars == <<currentUser, users, cases, lastCaseId, pending, editingCase,
          isMultiEditMode, draftCases, modifiedCaseIds, alert, clock, deadlineStatus,
          database, loaded, httpStatus, localStorage>>

\* what the handlers of the store neither read nor write
envVars == <<clock, deadlineStatus, database, loaded, httpStatus>>

\* the server's file and what was read from it
dbVars == <<database, loaded, httpStatus>>

\* what getDeadlineStatus neither reads nor writes
appVars == <<currentUser, users, cases, lastCaseId, pending, editingCase,
             isMultiEditMode, draftCases, modifiedCaseIds, alert, localStorage>>

uiVars == <<editingCase, isMultiEditMode, draftCases, modifiedCaseIds>>

----------------------------------------------------------------------------
(* Bounds of the model *)

MaxCases == 2      \* cases held by the store
MaxLog == 2        \* entries of one tramitation log
MaxAtt == 1        \* attachments of one case
MaxPending == 1    \* FileReader reads in flight
MaxRows == 2       \* rows of one imported sheet
MaxId == 2         \* ids handed out by getNextCaseId
MaxModified == 1   \* rows changed in one multi-edit session
MaxBatch == 3         \* rows of a pasted batch in SpecBatch
MaxList == 2          \* records handed to handleUpdateMultipleCases in SpecMulti
MaxTicks == 2         \* half days the clock runs from local midnight in SpecClassify

----------------------------------------------------------------------------
(* Program constants *)

MAX_FILE_SIZE_MB == 2
MAX_FILE_SIZE_BYTES == MAX_FILE_SIZE_MB * 1024 * 1024
ImportActor == <<"S", "i">>   \* 'Sistema (Importação)'

----------------------------------------------------------------------------
(* Strings *)

EmptyStr == <<>>

IsSpace(ch) == ch = " "

RECURSIVE TrimStart(_)
TrimStart(s) ==
    IF s # <<>> /\ IsSpace(Head(s)) THEN TrimStart(Tail(s)) ELSE s

RECURSIVE TrimEnd(_)
TrimEnd(s) ==
    IF s # <<>> /\ IsSpace(s[Len(s)]) THEN TrimEnd(SubSeq(s, 1, Len(s) - 1)) ELSE s

\* String.prototype.trim
Trim(s) == TrimEnd(TrimStart(s))

UpperCase == <<"A", "B", "C", "D", "E", "F", "G", "H", "I", "J", "K", "L", "M",
              "N", "O", "P", "Q", "R", "S", "T", "U", "V", "W", "X", "Y", "Z">>
LowerChar(ch) ==
    IF \E i \in 1..Len(UpperCase) : UpperCase[i] = ch
    THEN LET LowerCase == <<"a", "b", "c", "d", "e", "f", "g", "h", "i", "j", "k", "l", "m",
                             "n", "o", "p", "q", "r", "s", "t", "u", "v", "w", "x", "y", "z">>
         IN  LowerCase[CHOOSE i \in 1..Len(UpperCase) : UpperCase[i] = ch]
    ELSE ch

\* String.prototype.toLowerCase
ToLowerCase(s) == [i \in 1..Len(s) |-> LowerChar(s[i])]

Alice == <<"A", "l">>
Bob == <<"B", "o">>
Zed == <<"Z", "e">>
\* status names
StatusOpen == <<"o", "p", "e", "n">>
ARCHIVED_STATUS_NAME == <<"A", "r", "q", "u", "i", "v", "a", "d", "o">>
\* the value of a property that is undefined or absent
Undefined == <<"undefined">>


----------------------------------------------------------------------------
(* Records *)

NoUser == [id |-> 0, name |-> EmptyStr, email |-> "", permission |-> "none"]
NoCase == [id |-> 0]
NoAlert == [kind |-> "none", arg |-> <<>>, n |-> 0, sys |-> <<>>, file |-> <<>>]

\* an alert and the string its text quotes
Msg(kind, arg) == [kind |-> kind, arg |-> arg, n |-> 0, sys |-> <<>>, file |-> <<>>]

\* constants.ts MOCK_USERS is not part of the sources; an administrator and a
\* standard user stand for it
InitialUsers ==
    << [id |-> 1, name |-> Alice, email |-> "al@ms", permission |-> "adm"],
       [id |-> 2, name |-> Bob, email |-> "bo@ms", permission |-> "user"] >>

\* TramitationEntry (the timestamp is left out: no operation reads it)
Entry(from, to, deadline) == [fromUser |-> from, toUser |-> to, deadline |-> deadline]

\* Attachment (id and timestamp are left out)
NewAttachment(file, content, by) ==
    [fileName |-> file.name, fileSize |-> file.size, content |-> content, uploadedBy |-> by]

----------------------------------------------------------------------------
(* Array helpers *)

Indices(s) == 1..Len(s)

\* Array.prototype.find over the users by exact name
FindUser(us, nm) ==
    IF \E i \in Indices(us) : us[i].name = nm
    THEN us[CHOOSE i \in Indices(us) : us[i].name = nm /\ \A j \in 1..(i - 1) : us[j].name # nm]
    ELSE NoUser

HasUser(us, nm) == \E i \in Indices(us) : us[i].name = nm

RECURSIVE FilterSeq(_, _)
FilterSeq(s, keep) ==
    IF s = <<>> THEN <<>>
    ELSE IF Head(s).id \in keep THEN <<Head(s)>> \o FilterSeq(Tail(s), keep)
    ELSE FilterSeq(Tail(s), keep)

CaseIds(cs) == {cs[i].id : i \in Indices(cs)}

IsPrefix(s, t) == Len(s) <= Len(t) /\ SubSeq(t, 1, Len(s)) = s

----------------------------------------------------------------------------
(* Inputs *)

NumInputs == { <<"1">>, <<" ", "1">>, <<"2">> }   \* ' 1' trims to '1'
LeanNums == { <<"1">>, <<"2">> }
NameInputs == { Alice, Bob }
TargetNames == { Alice, Zed }
Deadlines == { "d1" }
\* a row as handleFileImport and PasteImportModal build it from a line whose
\* process number cell is pn: every string value is trimmed
ImportRow(pn) ==
    [processoNumero |-> Trim(pn), name |-> Trim(<<"a", "l", " ">>), prazoDeterminado |-> "",
     status |-> StatusOpen]
RECURSIVE SeqsUpTo(_, _)
SeqsUpTo(S, n) ==
    IF n = 0 THEN {<<>>}
    ELSE SeqsUpTo(S, n - 1) \cup
         {Append(q, x) : q \in {r \in SeqsUpTo(S, n - 1) : Len(r) = n - 1}, x \in S}
\* the lines of a sheet or of a pasted text, as their process number cells
SheetsOf(nums, rows) == {q \in SeqsUpTo(nums, rows) : q # <<>>}
Sheets == SheetsOf({ <<"1">>, <<"2">>, <<" ">> }, MaxRows)
LeanSheets == SheetsOf({ <<"1">>, <<" ">> }, MaxRows)

NoFile == [name |-> "", size |-> 0]
Contents == { "data", "" }
Files == { [name |-> "f", size |-> MAX_FILE_SIZE_BYTES],
           [name |-> "f", size |-> MAX_FILE_SIZE_BYTES + 1] }

\* the draft that CaseModal hands to onAddCase
DraftsFor(nums, names) ==
    { [processoNumero |-> pn, name |-> nm, email |-> FindUser(users, nm).email,
       prazoDeterminado |-> "d0", status |-> StatusOpen] :
        pn \in nums, nm \in names }
Drafts(nums) == DraftsFor(nums, { Bob })

----------------------------------------------------------------------------
(* getDeadlineStatus: strings, numbers and dates as the code reads them.   *)
(* Instants are hours since 1970-01-01T00:00Z; offset is what local time   *)
(* is ahead of UTC, the same at every date.                                *)

NaN == -1

Digits == <<"0", "1", "2", "3", "4", "5", "6", "7", "8", "9">>
IsDigit(ch) == \E i \in 1..10 : Digits[i] = ch
AllDigits(s) == \A i \in 1..Len(s) : IsDigit(s[i])

RECURSIVE LeadingDigits(_)
LeadingDigits(s) ==
    IF s # <<>> /\ IsDigit(Head(s)) THEN <<Head(s)>> \o LeadingDigits(Tail(s)) ELSE <<>>

RECURSIVE DigitsValue(_)
DigitsValue(ds) ==
    IF ds = <<>> THEN 0
    ELSE 10 * DigitsValue(SubSeq(ds, 1, Len(ds) - 1))
            + (CHOOSE i \in 1..10 : Digits[i] = ds[Len(ds)]) - 1

\* String(n) of a number that is not negative
RECURSIVE StringOf(_)
StringOf(n) ==
    IF n < 10 THEN <<Digits[n + 1]>> ELSE Append(StringOf(n \div 10), Digits[(n % 10) + 1])

\* padStart that leaves the string as it is
PadStartNone(s, targetLength, padChar) == s

\* String.prototype.padStart with a pad string of one character
RECURSIVE PadStart(_, _, _)
PadStart(s, targetLength, padChar) ==
    IF Len(s) >= targetLength THEN s ELSE PadStart(<<padChar>> \o s, targetLength, padChar)

\* `MST${String(newId).padStart(5, '0')}`
DisplayId(newId) == <<"M", "S", "T">> \o PadStart(StringOf(newId), 5, "0")

\* parseInt of a string without a sign
ParseInt(s) ==
    IF LeadingDigits(TrimStart(s)) = <<>> THEN NaN
    ELSE DigitsValue(LeadingDigits(TrimStart(s)))

\* String.prototype.split on any of the characters seps
RECURSIVE SplitParts(_, _, _)
SplitParts(s, seps, cur) ==
    IF s = <<>> THEN <<cur>>
    ELSE IF Head(s) \in seps THEN <<cur>> \o SplitParts(Tail(s), seps, <<>>)
    ELSE SplitParts(Tail(s), seps, Append(cur, Head(s)))
Split(s, seps) == SplitParts(s, seps, <<>>)

\* String.prototype.includes
Includes(s, sub) ==
    \E i \in 0..(Len(s) - Len(sub)) : SubSeq(s, i + 1, i + Len(sub)) = sub

\* days from 1970-01-01 to the day d of month m (1..12) of year y in the
\* Gregorian calendar; a day past the end of the month runs into the next
DaysFromCivil(y, m, d) ==
    LET yy == IF m <= 2 THEN y - 1 ELSE y
        era == yy \div 400
        yoe == yy - era * 400
        mp == IF m > 2 THEN m - 3 ELSE m + 9
        doy == ((153 * mp + 2) \div 5) + d - 1
        doe == yoe * 365 + (yoe \div 4) - (yoe \div 100) + doy
    IN  era * 146097 + doe - 719468

\* new Date(year, monthIndex, day): local midnight; a year of 0..99 is taken
\* as 1900 + year, a month index outside 0..11 carries into the year
NewDateLocal(year, monthIndex, day, offset) ==
    LET y == IF year \in 0..99 THEN 1900 + year ELSE year IN
        DaysFromCivil(y + (monthIndex \div 12), (monthIndex % 12) + 1, day) * 24 - offset

\* new Date(dateString): 'YYYY-MM-DD' is midnight UTC of that day;
\* 'M/D/YYYY' is local midnight of day D of month M (the reading of the
\* engines for this form, which the language leaves to them); anything
\* else of the strings of the model is Invalid Date
DateParse(dateString, offset) ==
    LET iso == Split(dateString, {"-"})
        us == Split(dateString, {"/"})
    IN  IF /\ Len(iso) = 3
           /\ Len(iso[1]) = 4 /\ Len(iso[2]) = 2 /\ Len(iso[3]) = 2
           /\ \A k \in 1..3 : AllDigits(iso[k])
        THEN IF ParseInt(iso[2]) \in 1..12 /\ ParseInt(iso[3]) \in 1..31
             THEN DaysFromCivil(ParseInt(iso[1]), ParseInt(iso[2]), ParseInt(iso[3])) * 24
             ELSE NaN
        ELSE IF /\ Len(us) = 3
                /\ Len(us[1]) \in 1..2 /\ Len(us[2]) \in 1..2 /\ Len(us[3]) = 4
                /\ \A k \in 1..3 : AllDigits(us[k])
        THEN IF ParseInt(us[1]) \in 1..12 /\ ParseInt(us[2]) \in 1..31
             THEN NewDateLocal(ParseInt(us[3]), ParseInt(us[1]) - 1, ParseInt(us[2]), offset)
             ELSE NaN
        ELSE NaN

\* setHours(0, 0, 0, 0) on a valid date
SetHoursZero(t, offset) == ((t + offset) \div 24) * 24 - offset

TerminalKeywords ==
    { <<"c", "o", "n", "c", "l", "u", "í", "d", "o">>,
      <<"f", "i", "n", "a", "l", "i", "z", "a", "d", "o">>,
      <<"t", "r", "a", "n", "s", "i", "t", "a", "d", "o", " ", "e", "m", " ",
        "j", "u", "l", "g", "a", "d", "o">>,
      <<"a", "r", "q", "u", "i", "v", "a", "d", "o">> }

\* the comparisons with isNaN after them, so that Invalid Date goes on
BucketUnchecked(deadline, now, offset) ==
    IF deadline # NaN /\ SetHoursZero(deadline, offset) < SetHoursZero(now, offset)
    THEN "overdue"
    ELSE IF deadline # NaN
            /\ (SetHoursZero(deadline, offset) - SetHoursZero(now, offset) + 23) \div 24 <= 7
    THEN "due-soon"
    ELSE "on-track"

\* from today = new Date() to the end of getDeadlineStatus
Bucket(deadline, now, offset) ==
    IF deadline = NaN THEN "none"
    ELSE IF SetHoursZero(deadline, offset) < SetHoursZero(now, offset) THEN "overdue"
    ELSE IF (SetHoursZero(deadline, offset) - SetHoursZero(now, offset) + 23) \div 24 <= 7
    THEN "due-soon"
    ELSE "on-track"

\* the head of the three copies of getDeadlineStatus; toLowerCase of
\* undefined throws a TypeError
BeforeTheDate(dateString, status) ==
    IF status = Undefined THEN "TypeError"
    ELSE IF \E kw \in TerminalKeywords : Includes(ToLowerCase(status), kw) THEN "completed"
    ELSE IF dateString = Undefined \/ dateString = EmptyStr THEN "none"
    ELSE "date"

\* new Date(y, m, d) of three parseInt results, Invalid Date if one is NaN
NewDateOfParts(year, month, day, offset) ==
    IF year = NaN \/ month = NaN \/ day = NaN THEN NaN
    ELSE NewDateLocal(year, month - 1, day, offset)

\* getDeadlineStatus of the Spreadsheet
GetDeadlineStatus(dateString, status, now, offset) ==
    IF BeforeTheDate(dateString, status) # "date" THEN BeforeTheDate(dateString, status)
    ELSE LET parts == Split(dateString, {"-", "/"})
             deadline ==
                IF Len(parts) = 3
                THEN IF Len(parts[1]) = 4
                     THEN NewDateOfParts(ParseInt(parts[1]), ParseInt(parts[2]),
                                         ParseInt(parts[3]), offset)
                     ELSE NewDateOfParts(ParseInt(parts[3]), ParseInt(parts[2]),
                                         ParseInt(parts[1]), offset)
                ELSE DateParse(dateString, offset)
         IN  Bucket(deadline, now, offset)

\* getDeadlineStatus of KpiDashboard and of GlobalKpiDashboard
GetDeadlineStatusKpi(dateString, status, now, offset) ==
    IF BeforeTheDate(dateString, status) # "date" THEN BeforeTheDate(dateString, status)
    ELSE Bucket(DateParse(dateString, offset), now, offset)

\* the local day of the clocks the model starts from: 2024-03-14
Today == DaysFromCivil(2024, 3, 14)
Clocks ==
    {[now |-> Today * 24 + h - off, offset |-> off] : h \in {0, 11}, off \in {-3, 0, 2}}

\* values of dataFinal, each with the day of the calendar it names
\* (Today - 1, Today, ... ; NaN where it names none)
DateInputs ==
    { [text |-> EmptyStr, day |-> NaN],
      [text |-> <<"x">>, day |-> NaN],
      [text |-> <<"2", "0", "2", "4", "-", "0", "3", "-", "1", "3">>, day |-> Today - 1],
      [text |-> <<"2", "0", "2", "4", "-", "0", "3", "-", "1", "4">>, day |-> Today],
      [text |-> <<"2", "0", "2", "4", "-", "0", "3", "-", "1", "5">>, day |-> Today + 1],
      [text |-> <<"2", "0", "2", "4", "-", "0", "3", "-", "2", "1">>, day |-> Today + 7],
      [text |-> <<"2", "0", "2", "4", "-", "0", "3", "-", "2", "2">>, day |-> Today + 8],
      [text |-> <<"2", "0", "2", "4", "-", "0", "3", "-", "2", "3">>, day |-> Today + 9],
      [text |-> <<"1", "3", "/", "0", "3", "/", "2", "0", "2", "4">>, day |-> Today - 1],
      [text |-> <<"0", "5", "/", "0", "3", "/", "2", "0", "2", "4">>, day |-> Today - 9],
      [text |-> <<"1", "4", "/", "0", "3", "/", "2", "0", "2", "4">>, day |-> Today] }

\* values of status
StatusInputs ==
    { StatusOpen, ARCHIVED_STATUS_NAME,
      <<"F", "I", "N", "A", "L", "I", "Z", "A", "D", "O">>,
      <<"N", "ã", "o", " ", "c", "o", "n", "c", "l", "u", "í", "d", "o">> }

NoCall ==
    [fn |-> "none", dateString |-> EmptyStr, status |-> EmptyStr,
     now |-> 0, offset |-> 0, result |-> "none"]

\* a row of the table is rendered (getDeadlineStatus(row.dataFinal, row.status))
RenderRow(dateString, status) ==
    /\ deadlineStatus' =
            [fn |-> "Spreadsheet", dateString |-> dateString, status |-> status,
             now |-> clock.now, offset |-> clock.offset,
             result |-> GetDeadlineStatus(dateString, status, clock.now, clock.offset)]
    /\ UNCHANGED <<clock, appVars, dbVars>>

\* a dashboard counts a case (getDeadlineStatus(c.dataFinal, c.status))
RenderKpi(dateString, status) ==
    /\ deadlineStatus' =
            [fn |-> "Kpi", dateString |-> dateString, status |-> status,
             now |-> clock.now, offset |-> clock.offset,
             result |-> GetDeadlineStatusKpi(dateString, status, clock.now, clock.offset)]
    /\ UNCHANGED <<clock, appVars, dbVars>>

\* twelve hours pass
Tick ==
    /\ clock.now + clock.offset < Today * 24 + 12 * MaxTicks
    /\ clock' = [clock EXCEPT !.now = @ + 12]
    /\ UNCHANGED <<deadlineStatus, appVars, dbVars>>

\* JSON.stringify of an object: a property whose value is undefined is left
\* out of the text; the text of an object is modelled as the function from
\* the names of the properties written to their values
StringifyCase(c) ==
    [f \in {g \in DOMAIN c : g = "status" => c[g] # Undefined} |-> c[f]]
\* JSON.stringify(cases), the value under legal_cases_data
JSONStringify(cs) == [i \in Indices(cs) |-> StringifyCase(cs[i])]

\* JSON.parse: reading a property the text does not have gives undefined
CaseFields ==
    {"id", "id2", "processoNumero", "name", "email", "coResponsibleName", "tramitationLog",
     "attachments", "prazoDeterminado", "status"}

\* JSON.parse of a case with '' for a property the text does not have
ParseCaseDefaults(doc) ==
    [f \in CaseFields |-> IF f \in DOMAIN doc THEN doc[f] ELSE EmptyStr]

\* JSON.parse of one case
ParseCase(doc) ==
    [f \in CaseFields |-> IF f \in DOMAIN doc THEN doc[f] ELSE Undefined]
JSONParse(text) == [i \in Indices(text) |-> ParseCase(text[i])]

\* the cases a reload of the page starts from after the effect that follows
\* a render with cases cs
LoadFromLocalStorage(cs) == JSONParse(JSONStringify(cs))

\* an item of localStorage: its kind is none, json, or corrupt for a text
\* that is not JSON
JsonItem(text) == [kind |-> "json", text |-> text]

\* the text that the effect of [cases] writes under legal_cases_data, with
\* only the first case written
StoredCasesHead(cs) == JSONStringify(IF cs = <<>> THEN cs ELSE <<Head(cs)>>)

\* the text that the effect of [cases] writes under legal_cases_data
StoredCases(cs) == JSONStringify(cs)

\* what follows every handler of the store: the effects that save users and
\* cases run after a render in which the collection changed (users have no
\* property that can be undefined), and nothing happens to the clock or the
\* server
Persisted ==
    /\ localStorage' =
            [users |-> IF users' # users THEN JsonItem(users') ELSE localStorage.users,
             cases |-> IF cases' # cases THEN JsonItem(StoredCases(cases'))
                       ELSE localStorage.cases]
    /\ UNCHANGED envVars

\* INITIAL_DATA of the server
INITIAL_DATA ==
    [users |-> <<>>, cases |-> <<>>, tribunals |-> <<>>, fases |-> <<>>, statuses |-> <<>>]
\* database.json does not exist
NoDatabase == [exists |-> FALSE, readable |-> TRUE, content |-> "json", text |-> INITIAL_DATA]

----------------------------------------------------------------------------
Init ==
    /\ currentUser = NoUser
    /\ users = InitialUsers
    /\ cases = <<>>
    /\ lastCaseId = 0
    /\ pending = <<>>
    /\ editingCase = NoCase
    /\ isMultiEditMode = FALSE
    /\ draftCases = <<>>
    /\ modifiedCaseIds = {}
    /\ alert = NoAlert
    /\ clock = [now |-> Today * 24 + 12, offset |-> 0]
    /\ deadlineStatus = NoCall
    /\ database = NoDatabase
    /\ loaded = INITIAL_DATA
    /\ httpStatus = 0
    /\ localStorage = [users |-> JsonItem(InitialUsers), cases |-> JsonItem(StoredCases(<<>>))]

LoggedIn == currentUser # NoUser

\* no modal is open and the table is not in multi-edit mode
Idle == LoggedIn /\ editingCase = NoCase /\ ~isMultiEditMode

\* the Spreadsheet of the dashboard tab (isAdminView), which only an
\* administrator is shown
AdminIdle == Idle /\ currentUser.permission = "adm"

\* myCases: the rows a standard user is shown
Shown(c) == currentUser.permission = "adm" \/ c.email = currentUser.email

\* handleLogin (the password check is left out)
HandleLogin(u) ==
    /\ currentUser = NoUser
    /\ \E i \in Indices(users) : users[i] = u
    /\ currentUser' = u
    /\ alert' = NoAlert
    /\ UNCHANGED <<users, cases, lastCaseId, pending, uiVars>>
    /\ Persisted

----------------------------------------------------------------------------
(* handleUpdateUser / handleDeleteUser; the e-mails of the model carry no   *)
(* blanks and no capitals                                                   *)

\* UserManagement handleSubmit: the user being edited with the form's fields
UserEdit(user, field, val) ==
    IF field = "name" THEN [user EXCEPT !.name = val] ELSE [user EXCEPT !.email = val]

HandleUpdateUser(updatedUser) ==
    /\ AdminIdle
    /\ IF \E i \in Indices(users) :
            users[i].id # updatedUser.id /\ users[i].email = updatedUser.email
       THEN /\ alert' = Msg("emailTaken", EmptyStr)
            /\ users' = users
       ELSE /\ users' = [i \in Indices(users) |->
                            IF users[i].id = updatedUser.id THEN updatedUser ELSE users[i]]
            /\ alert' = NoAlert
    /\ UNCHANGED <<currentUser, cases, lastCaseId, pending, uiVars>>
    /\ Persisted

HandleDeleteUser(userId) ==
    /\ AdminIdle
    /\ userId \in {users[i].id : i \in Indices(users)}
    /\ users' = FilterSeq(users, {users[i].id : i \in Indices(users)} \ {userId})
    /\ alert' = NoAlert
    /\ UNCHANGED <<currentUser, cases, lastCaseId, pending, uiVars>>
    /\ Persisted

----------------------------------------------------------------------------
(* handleAddCase *)

\* the collision check without trim()
AddCollidesExact(cs, newCase) ==
    \E i \in Indices(cs) : cs[i].processoNumero = newCase.processoNumero

AddCollides(cs, newCase) ==
    \E i \in Indices(cs) : Trim(cs[i].processoNumero) = Trim(newCase.processoNumero)

\* a new case without its creation entry
FinalNewCaseNoLog(newCase, newId, actor) ==
    [id |-> newId,
     id2 |-> DisplayId(newId),
     processoNumero |-> newCase.processoNumero,
     name |-> newCase.name,
     email |-> newCase.email,
     coResponsibleName |-> newCase.name,
     tramitationLog |-> <<>>,
     attachments |-> <<>>,
     prazoDeterminado |-> newCase.prazoDeterminado,
     status |-> newCase.status]

FinalNewCase(newCase, newId, actor) ==
    [id |-> newId,
     id2 |-> DisplayId(newId),
     processoNumero |-> newCase.processoNumero,
     name |-> newCase.name,
     email |-> newCase.email,
     coResponsibleName |-> newCase.name,
     tramitationLog |-> << Entry(actor, newCase.name, newCase.prazoDeterminado) >>,
     attachments |-> <<>>,
     prazoDeterminado |-> newCase.prazoDeterminado,
     status |-> newCase.status]

HandleAddCase(newCase) ==
    /\ AdminIdle
    /\ IF AddCollides(cases, newCase)
       THEN /\ alert' = Msg("addDuplicate", newCase.processoNumero)
            /\ UNCHANGED <<cases, lastCaseId>>
       ELSE /\ Len(cases) < MaxCases
            /\ lastCaseId < MaxId
            /\ lastCaseId' = lastCaseId + 1
            /\ cases' = << FinalNewCase(newCase, lastCaseId + 1, currentUser.name) >> \o cases
            /\ alert' = Msg("created", newCase.processoNumero)
    /\ UNCHANGED <<currentUser, users, pending, uiVars>>
    /\ Persisted

----------------------------------------------------------------------------
(* handleUpdateCase *)

\* the collision check without the exclusion of the case's own id
UpdateCollidesAnyId(cs, updatedCase) ==
    \E i \in Indices(cs) :
        Trim(cs[i].processoNumero) = Trim(updatedCase.processoNumero)

UpdateCollides(cs, updatedCase) ==
    \E i \in Indices(cs) :
        /\ cs[i].id # updatedCase.id
        /\ Trim(cs[i].processoNumero) = Trim(updatedCase.processoNumero)

\* the updater without the tramitation logic
UpdateOneVerbatim(c, us, actor, updatedCase) ==
    IF c.id # updatedCase.id THEN c ELSE updatedCase

\* the updater passed to setCases, applied to one stored case c
UpdateOne(c, us, actor, updatedCase) ==
    IF c.id # updatedCase.id THEN c
    ELSE IF c.name # updatedCase.name
    THEN [updatedCase EXCEPT
            !.email = FindUser(us, updatedCase.name).email,
            !.tramitationLog =
                Append(c.tramitationLog,
                       Entry(actor, updatedCase.name, updatedCase.prazoDeterminado)),
            !.coResponsibleName =
                IF c.coResponsibleName # EmptyStr THEN c.coResponsibleName
                ELSE updatedCase.name]
    ELSE updatedCase

\* the log of the stored case has room for the entry an assignee change appends
LogRoom(cs, updatedCase) ==
    \A i \in Indices(cs) :
        (cs[i].id = updatedCase.id /\ cs[i].name # updatedCase.name)
            => Len(cs[i].tramitationLog) < MaxLog

HandleUpdateCase(updatedCase) ==
    /\ LogRoom(cases, updatedCase)
    /\ IF UpdateCollides(cases, updatedCase)
       THEN /\ alert' = Msg("updateDuplicate", updatedCase.processoNumero)
            /\ cases' = cases
       ELSE /\ cases' = [i \in Indices(cases) |->
                            UpdateOne(cases[i], users, currentUser.name, updatedCase)]
            /\ alert' = NoAlert

\* CaseModal: the form starts from the captured case; handleChange and
\* handleAssigneeChange overwrite fields of it
FormData(base, pn, nm) ==
    [base EXCEPT
        !.processoNumero = pn,
        !.name = nm,
        !.email = IF nm = base.name THEN base.email ELSE FindUser(users, nm).email]

\* openEditModal
OpenEditModal(i) ==
    /\ AdminIdle
    /\ i \in Indices(cases)
    /\ editingCase' = cases[i]
    /\ alert' = NoAlert
    /\ UNCHANGED <<currentUser, users, cases, lastCaseId, pending,
                   isMultiEditMode, draftCases, modifiedCaseIds>>
    /\ Persisted

\* CaseModal onClose
CloseEditModal ==
    /\ editingCase # NoCase
    /\ editingCase' = NoCase
    /\ alert' = NoAlert
    /\ UNCHANGED <<currentUser, users, cases, lastCaseId, pending,
                   isMultiEditMode, draftCases, modifiedCaseIds>>
    /\ Persisted

\* CaseModal onSave with editingCase set: onUpdateCase({...editingCase, ...dataFromModal})
SaveEditModal(pn, nm) ==
    /\ editingCase # NoCase
    /\ HandleUpdateCase(FormData(editingCase, pn, nm))
    /\ editingCase' = NoCase
    /\ UNCHANGED <<currentUser, users, lastCaseId, pending,
                   isMultiEditMode, draftCases, modifiedCaseIds>>
    /\ Persisted

\* handleEditSave (inline cell) and KanbanBoard handleDrop: the payload is the
\* row of the current render with one field replaced
RowEdit(row, field, val) ==
    CASE field = "processoNumero" -> [row EXCEPT !.processoNumero = val]
      [] field = "coResponsibleName" -> [row EXCEPT !.coResponsibleName = val]
      [] field = "name" -> [row EXCEPT !.name = val, !.email = FindUser(users, val).email]
      [] field = "status" -> [row EXCEPT !.status = val]

RowEdits(nums) ==
    {<<"processoNumero", pn>> : pn \in nums}
        \cup {<<"name", nm>> : nm \in NameInputs}

UpdateRow(i, e) ==
    /\ Idle
    /\ i \in Indices(cases)
    /\ Shown(cases[i])
    /\ e[1] # "name" => currentUser.permission = "adm"
    /\ e[1] = "name" => cases[i].name # e[2]
    /\ HandleUpdateCase(RowEdit(cases[i], e[1], e[2]))
    /\ UNCHANGED <<currentUser, users, lastCaseId, pending, uiVars>>
    /\ Persisted

----------------------------------------------------------------------------
(* handleUpdateMultipleCases and the multi-edit mode of the table *)

\* updatedCaseMap.get(c.id) || c ; a later record of the list wins in the Map
MapGet(updatedCases, c) ==
    IF \E j \in Indices(updatedCases) : updatedCases[j].id = c.id
    THEN updatedCases[CHOOSE j \in Indices(updatedCases) :
                         /\ updatedCases[j].id = c.id
                         /\ \A k \in (j + 1)..Len(updatedCases) : updatedCases[k].id # c.id]
    ELSE c

\* handleUpdateMultipleCases growing the store by the records it does not hold
UpdatedMultipleUpsert(cs, updatedCases) ==
    [i \in Indices(cs) |-> MapGet(updatedCases, cs[i])]
        \o FilterSeq(updatedCases, CaseIds(updatedCases) \ CaseIds(cs))

UpdatedMultiple(cs, updatedCases) ==
    [i \in Indices(cs) |-> MapGet(updatedCases, cs[i])]

\* handleEnableMultiEdit: JSON deep copy of the rows the table shows
HandleEnableMultiEdit ==
    /\ AdminIdle
    /\ cases # <<>>
    /\ draftCases' = cases
    /\ modifiedCaseIds' = {}
    /\ isMultiEditMode' = TRUE
    /\ alert' = NoAlert
    /\ UNCHANGED <<currentUser, users, cases, lastCaseId, pending, editingCase>>
    /\ Persisted

\* handleCancelMultiEdit
HandleCancelMultiEdit ==
    /\ isMultiEditMode
    /\ isMultiEditMode' = FALSE
    /\ draftCases' = <<>>
    /\ modifiedCaseIds' = {}
    /\ alert' = NoAlert
    /\ UNCHANGED <<currentUser, users, cases, lastCaseId, pending, editingCase>>
    /\ Persisted

MultiEdits == { <<"processoNumero", <<"1">> >>, <<"name", Alice>> }

\* handleMultiEditChange, once per row and for at most MaxModified rows
HandleMultiEditChange(j, e) ==
    /\ isMultiEditMode
    /\ j \in Indices(draftCases)
    /\ Cardinality(modifiedCaseIds \cup {draftCases[j].id}) <= MaxModified
    /\ draftCases[j].id \notin modifiedCaseIds
    /\ draftCases' = [draftCases EXCEPT ![j] = RowEdit(draftCases[j], e[1], e[2])]
    /\ modifiedCaseIds' = modifiedCaseIds \cup {draftCases[j].id}
    /\ alert' = NoAlert
    /\ UNCHANGED <<currentUser, users, cases, lastCaseId, pending, editingCase,
                   isMultiEditMode>>
    /\ Persisted

\* handleSaveMultiEdit; its button is disabled while no row is modified
HandleSaveMultiEdit ==
    /\ isMultiEditMode
    /\ modifiedCaseIds # {}
    /\ cases' = UpdatedMultiple(cases, FilterSeq(draftCases, modifiedCaseIds))
    /\ isMultiEditMode' = FALSE
    /\ draftCases' = <<>>
    /\ modifiedCaseIds' = {}
    /\ alert' = NoAlert
    /\ UNCHANGED <<currentUser, users, lastCaseId, pending, editingCase>>
    /\ Persisted

\* the records a caller of handleUpdateMultipleCases can hand over: edited
\* copies of stored rows, and copies of rows whose ids the store does not hold
UpdateRecords(cs) ==
    {RowEdit(cs[i], e[1], e[2]) : i \in Indices(cs), e \in MultiEdits}
        \cup {FinalNewCase(d, id, Alice) :
                d \in Drafts({ <<"2">> }), id \in (1..MaxId) \ CaseIds(cs)}

\* lists of up to MaxList such records with distinct ids
UpdateLists(cs) ==
    {q \in SeqsUpTo(UpdateRecords(cs), MaxList) :
        /\ q # <<>>
        /\ \A a, b \in Indices(q) : a # b => q[a].id # q[b].id}

\* handleUpdateMultipleCases
HandleUpdateMultipleCases(updatedCases) ==
    /\ AdminIdle
    /\ cases' = UpdatedMultiple(cases, updatedCases)
    /\ alert' = NoAlert
    /\ UNCHANGED <<currentUser, users, lastCaseId, pending, uiVars>>
    /\ Persisted

----------------------------------------------------------------------------
(* handleDeleteCase / handleDeleteMultipleCases *)

\* the filter dropping the cases up to the highest id given
DeletedCasesUpTo(cs, caseIds) ==
    FilterSeq(cs, {id \in CaseIds(cs) : \A d \in caseIds : id > d})

DeletedCases(cs, caseIds) == FilterSeq(cs, CaseIds(cs) \ caseIds)

HandleDeleteCase(caseId) ==
    /\ AdminIdle
    /\ caseId \in CaseIds(cases)
    /\ cases' = DeletedCases(cases, {caseId})
    /\ alert' = NoAlert
    /\ UNCHANGED <<currentUser, users, lastCaseId, pending, uiVars>>
    /\ Persisted

HandleDeleteMultipleCases(caseIds) ==
    /\ AdminIdle
    /\ caseIds # {}
    /\ cases' = DeletedCases(cases, caseIds)
    /\ alert' = NoAlert
    /\ UNCHANGED <<currentUser, users, lastCaseId, pending, uiVars>>
    /\ Persisted

----------------------------------------------------------------------------
(* the views of the store and the snapshots of the server *)

\* activeCases / archivedCases
ActiveCases(cs) == SelectSeq(cs, LAMBDA c : c.status # ARCHIVED_STATUS_NAME)
ArchivedCases(cs) == SelectSeq(cs, LAMBDA c : c.status = ARCHIVED_STATUS_NAME)

\* the snapshot that a client saves: the five collections of the App state,
\* of which the model keeps the three lookup lists fixed
Snapshot ==
    [users |-> users, cases |-> cases,
     tribunals |-> << [id |-> 1, name |-> "TJ"] >>,
     fases |-> << [id |-> 1, name |-> "Inicial"] >>,
     statuses |-> << [id |-> 1, name |-> StatusOpen],
                     [id |-> 2, name |-> ARCHIVED_STATUS_NAME] >>]

\* JSON.stringify and JSON.parse of a snapshot; users and lookup entries
\* have no property that can be undefined
StringifySnapshot(snap) == [snap EXCEPT !.cases = JSONStringify(snap.cases)]
ParseSnapshot(text) == [text EXCEPT !.cases = JSONParse(text.cases)]

\* readDatabase: what it returns. A file that is missing, cannot be read, is
\* blank or does not parse gives INITIAL_DATA
ReadDatabase(db) ==
    IF ~db.exists \/ ~db.readable \/ db.content # "json" THEN INITIAL_DATA
    ELSE ParseSnapshot(db.text)


\* POST /api/save with the body a client makes of snapshot snap:
\* express.json parses the body, the handler writes JSON.stringify of it
PostSave(snap) ==
    /\ IF database.readable
       THEN /\ database' =
                    [exists |-> TRUE, readable |-> TRUE, content |-> "json",
                     text |-> StringifySnapshot(ParseSnapshot(StringifySnapshot(snap)))]
            /\ httpStatus' = 200
       ELSE /\ httpStatus' = 500
            /\ UNCHANGED database
    /\ UNCHANGED <<loaded, clock, deadlineStatus, appVars>>

\* GET /api/db: readDatabase creates the file when there is none and writes
\* no other; res.json sends the text of what it returns and the client
\* parses it
GetDb ==
    /\ database' =
            IF database.exists THEN database
            ELSE [exists |-> TRUE, readable |-> TRUE, content |-> "json",
                  text |-> StringifySnapshot(INITIAL_DATA)]
    /\ loaded' = ParseSnapshot(StringifySnapshot(ReadDatabase(database)))
    /\ httpStatus' = 200
    /\ UNCHANGED <<clock, deadlineStatus, appVars>>

\* the disk starts or stops failing (readFileSync and writeFileSync throw)
DiskFault ==
    /\ database.exists
    /\ database' = [database EXCEPT !.readable = ~@]
    /\ UNCHANGED <<loaded, httpStatus, clock, deadlineStatus, appVars>>

\* database.json is left blank or cut short, as by a write that did not end
DamageDatabase(content) ==
    /\ database.exists
    /\ database.content = "json"
    /\ database' = [database EXCEPT !.content = content]
    /\ UNCHANGED <<loaded, httpStatus, clock, deadlineStatus, appVars>>

----------------------------------------------------------------------------
(* loadFromLocalStorage and the start of the App *)

\* loadFromLocalStorage: what it returns for the item under a key, parse
\* being JSON.parse of the item's text
LoadUsers(item, fallbackData) == IF item.kind = "json" THEN item.text ELSE fallbackData
LoadCases(item, fallbackData) ==
    IF item.kind = "json" THEN JSONParse(item.text) ELSE fallbackData

\* Math.max(...cases.map(c => c.id)), 0 for no case
MaxCaseId(cs) ==
    IF cs = <<>> THEN 0 ELSE CHOOSE m \in CaseIds(cs) : \A id \in CaseIds(cs) : id <= m

\* the page is loaded again: the state is built from localStorage, reads in
\* flight are gone, and the effects of the first render save what was loaded
Reload ==
    /\ users' = LoadUsers(localStorage.users, InitialUsers)
    /\ cases' = LoadCases(localStorage.cases, <<>>)
    /\ lastCaseId' = MaxCaseId(cases')
    /\ currentUser' = NoUser
    /\ pending' = <<>>
    /\ editingCase' = NoCase
    /\ isMultiEditMode' = FALSE
    /\ draftCases' = <<>>
    /\ modifiedCaseIds' = {}
    /\ alert' = NoAlert
    /\ localStorage' = [users |-> JsonItem(users'), cases |-> JsonItem(StoredCases(cases'))]
    /\ UNCHANGED envVars

\* the item under a key is removed or overwritten from outside the App
Tamper(key, kind) ==
    /\ localStorage[key].kind = "json"
    /\ localStorage' = [localStorage EXCEPT ![key] = [@ EXCEPT !.kind = kind]]
    /\ UNCHANGED <<currentUser, users, cases, lastCaseId, pending, uiVars, alert>>
    /\ UNCHANGED envVars

----------------------------------------------------------------------------
(* handleImportCases *)

\* users.find(u => u.name.trim().toLowerCase() === assigneeName?.trim().toLowerCase())
FindAssignee(us, assigneeName) ==
    LET same(u) == ToLowerCase(Trim(u.name)) = ToLowerCase(Trim(assigneeName)) IN
    IF \E i \in Indices(us) : same(us[i])
    THEN us[CHOOSE i \in Indices(us) : same(us[i]) /\ \A j \in 1..(i - 1) : ~same(us[j])]
    ELSE NoUser

\* x || y on strings
OrElse(x, y) == IF x # EmptyStr THEN x ELSE y

FinalCase(importedCase, newId, us) ==
    [id |-> newId,
     id2 |-> DisplayId(newId),
     processoNumero |-> importedCase.processoNumero,
     name |-> OrElse(FindAssignee(us, importedCase.name).name, importedCase.name),
     email |-> FindAssignee(us, importedCase.name).email,
     coResponsibleName |-> OrElse(FindAssignee(us, importedCase.name).name, importedCase.name),
     tramitationLog |-> << Entry(ImportActor, importedCase.name, importedCase.prazoDeterminado) >>,
     attachments |-> <<>>,
     prazoDeterminado |-> importedCase.prazoDeterminado,
     status |-> importedCase.status]

\* the for loop with the two duplicate lists exchanged
RECURSIVE ImportLoopSwapped(_, _, _, _)
ImportLoopSwapped(newCases, existing, us, acc) ==
    IF newCases = <<>> THEN acc
    ELSE LET importedCase == Head(newCases)
             trimmedProcessoNumero == Trim(importedCase.processoNumero)
         IN  IF trimmedProcessoNumero = EmptyStr
             THEN ImportLoopSwapped(Tail(newCases), existing, us, acc)
             ELSE IF trimmedProcessoNumero \in existing
             THEN ImportLoopSwapped(Tail(newCases), existing, us,
                    [acc EXCEPT !.duplicatesInFile = Append(@, trimmedProcessoNumero)])
             ELSE IF trimmedProcessoNumero \in acc.importedProcessNumbersInFile
             THEN ImportLoopSwapped(Tail(newCases), existing, us,
                    [acc EXCEPT !.duplicatesInSystem = Append(@, trimmedProcessoNumero)])
             ELSE ImportLoopSwapped(Tail(newCases), existing, us,
                    [acc EXCEPT
                        !.importedProcessNumbersInFile = @ \cup {trimmedProcessoNumero},
                        !.lastId = @ + 1,
                        !.successfulImports =
                            Append(@, FinalCase(importedCase, acc.lastId + 1, us))])

\* the for loop over newCases; acc holds the loop's locals and the id counter
RECURSIVE ImportLoop(_, _, _, _)
ImportLoop(newCases, existing, us, acc) ==
    IF newCases = <<>> THEN acc
    ELSE LET importedCase == Head(newCases)
             trimmedProcessoNumero == Trim(importedCase.processoNumero)
         IN  IF trimmedProcessoNumero = EmptyStr
             THEN ImportLoop(Tail(newCases), existing, us, acc)
             ELSE IF trimmedProcessoNumero \in existing
             THEN ImportLoop(Tail(newCases), existing, us,
                    [acc EXCEPT !.duplicatesInSystem = Append(@, trimmedProcessoNumero)])
             ELSE IF trimmedProcessoNumero \in acc.importedProcessNumbersInFile
             THEN ImportLoop(Tail(newCases), existing, us,
                    [acc EXCEPT !.duplicatesInFile = Append(@, trimmedProcessoNumero)])
             ELSE ImportLoop(Tail(newCases), existing, us,
                    [acc EXCEPT
                        !.importedProcessNumbersInFile = @ \cup {trimmedProcessoNumero},
                        !.lastId = @ + 1,
                        !.successfulImports =
                            Append(@, FinalCase(importedCase, acc.lastId + 1, us))])

Reconcile(cs, us, lastId, newCases) ==
    ImportLoop(newCases, {Trim(cs[i].processoNumero) : i \in Indices(cs)}, us,
               [importedProcessNumbersInFile |-> {}, successfulImports |-> <<>>,
                duplicatesInFile |-> <<>>, duplicatesInSystem |-> <<>>, lastId |-> lastId])

Report(res) ==
    [kind |-> "report", arg |-> EmptyStr, n |-> Len(res.successfulImports),
     sys |-> res.duplicatesInSystem, file |-> res.duplicatesInFile]

\* handleImportCases of the render whose cases and users are cs and us; the
\* id counter is a ref and the updater of setCases gets the current cases
HandleImportCases(cs, us, newCases) ==
    \E res \in {Reconcile(cs, us, lastCaseId, newCases)} :
        /\ Len(cases) + Len(res.successfulImports) <= MaxCases
        /\ res.lastId <= MaxId
        /\ cases' = cases \o res.successfulImports
        /\ lastCaseId' = res.lastId
        /\ alert' = Report(res)

SheetRows(sheet) == [r \in Indices(sheet) |-> ImportRow(sheet[r])]

\* a row as handleFileImport builds it from a line of the sheet, given as
\* its process number cell, or that cell, a tab and its status cell: only
\* the cells that have a value become properties of the row
FileRow(line) ==
    LET cells == Split(line, {"\t"}) IN
        [ImportRow(cells[1]) EXCEPT
            !.status = IF Len(cells) > 1 /\ Trim(cells[2]) # EmptyStr
                       THEN Trim(cells[2]) ELSE Undefined]
FileRows(sheet) == [r \in Indices(sheet) |-> FileRow(sheet[r])]

RECURSIVE WithNumber(_)
WithNumber(rows) ==
    IF rows = <<>> THEN <<>>
    ELSE IF Head(rows).processoNumero # EmptyStr
    THEN <<Head(rows)>> \o WithNumber(Tail(rows))
    ELSE WithNumber(Tail(rows))

\* PasteImportModal handleImport: rows without a process number are dropped
\* and the import runs within the click
HandlePasteImport(sheet) ==
    /\ AdminIdle
    /\ IF WithNumber(SheetRows(sheet)) = <<>>
       THEN /\ alert' = Msg("noValidCase", EmptyStr)
            /\ UNCHANGED <<cases, lastCaseId>>
       ELSE HandleImportCases(cases, users, WithNumber(SheetRows(sheet)))
    /\ UNCHANGED <<currentUser, users, pending, uiVars>>
    /\ Persisted

----------------------------------------------------------------------------
(* handleTramitateCase, handleAddAttachment and the FileReader callbacks *)

\* the size check with >= in place of >
TooLargeInclusive(file) == file.size >= MAX_FILE_SIZE_BYTES

TooLarge(file) == file.size > MAX_FILE_SIZE_BYTES

\* processTramitation without the check of toUser
TramitateOneUnchecked(c, us, actor, caseId, toUserName, deadline, file, content) ==
    IF c.id # caseId THEN c
    ELSE [c EXCEPT
            !.name = FindUser(us, toUserName).name,
            !.email = FindUser(us, toUserName).email,
            !.tramitationLog = Append(c.tramitationLog, Entry(actor, toUserName, deadline)),
            !.attachments =
                IF file # NoFile /\ content # ""
                THEN Append(c.attachments, NewAttachment(file, content, actor))
                ELSE c.attachments]

\* processTramitation that drops the attachment
TramitateOneNoAttachment(c, us, actor, caseId, toUserName, deadline, file, content) ==
    IF c.id # caseId THEN c
    ELSE IF ~HasUser(us, toUserName) THEN c
    ELSE [c EXCEPT
            !.name = FindUser(us, toUserName).name,
            !.email = FindUser(us, toUserName).email,
            !.tramitationLog = Append(c.tramitationLog, Entry(actor, toUserName, deadline))]

\* the updater with the new assignee always taken as co-responsible
TramitateOneOverwriting(c, us, actor, caseId, toUserName, deadline, file, content) ==
    IF c.id # caseId THEN c
    ELSE IF ~HasUser(us, toUserName) THEN c
    ELSE [c EXCEPT
            !.name = FindUser(us, toUserName).name,
            !.email = FindUser(us, toUserName).email,
            !.tramitationLog = Append(c.tramitationLog, Entry(actor, toUserName, deadline)),
            !.coResponsibleName = FindUser(us, toUserName).name,
            !.attachments =
                IF file # NoFile /\ content # ""
                THEN Append(c.attachments, NewAttachment(file, content, actor))
                ELSE c.attachments]

\* the updater of processTramitation applied to one stored case c; us and actor
\* are the users and currentUser of the render that created the callback
TramitateOne(c, us, actor, caseId, toUserName, deadline, file, content) ==
    IF c.id # caseId THEN c
    ELSE IF ~HasUser(us, toUserName) THEN c
    ELSE [c EXCEPT
            !.name = FindUser(us, toUserName).name,
            !.email = FindUser(us, toUserName).email,
            !.tramitationLog = Append(c.tramitationLog, Entry(actor, toUserName, deadline)),
            !.coResponsibleName =
                IF c.coResponsibleName # EmptyStr THEN c.coResponsibleName
                ELSE FindUser(us, toUserName).name,
            !.attachments =
                IF file # NoFile /\ content # ""
                THEN Append(c.attachments, NewAttachment(file, content, actor))
                ELSE c.attachments]

\* the case has room for what a tramitation appends
TramitationRoom(cs, us, caseId, toUserName, file) ==
    \A i \in Indices(cs) :
        (cs[i].id = caseId /\ HasUser(us, toUserName)) =>
            /\ Len(cs[i].tramitationLog) < MaxLog
            /\ file # NoFile => Len(cs[i].attachments) < MaxAtt

\* processTramitation: the updater runs over the store, and its alert is
\* raised for the case of the id when the user is not found
ProcessTramitation(us, actor, caseId, toUserName, deadline, file, content) ==
    /\ TramitationRoom(cases, us, caseId, toUserName, file)
    /\ cases' = [i \in Indices(cases) |->
                    TramitateOne(cases[i], us, actor, caseId, toUserName, deadline,
                                 file, content)]
    /\ alert' = IF caseId \in CaseIds(cases) /\ ~HasUser(us, toUserName)
                THEN Msg("userNotFound", toUserName) ELSE NoAlert

\* a read in flight: the arguments of the call and the users, cases and
\* currentUser of the render whose handler started it
PendingTramitation(caseId, toUserName, deadline, file) ==
    [kind |-> "tramitate", caseId |-> caseId, toUserName |-> toUserName,
     deadline |-> deadline, file |-> file, users |-> users, actor |-> currentUser.name,
     cases |-> <<>>, sheet |-> <<>>]

PendingAttachment(caseId, file) ==
    [kind |-> "attach", caseId |-> caseId, toUserName |-> EmptyStr,
     deadline |-> "", file |-> file, users |-> users, actor |-> currentUser.name,
     cases |-> <<>>, sheet |-> <<>>]

PendingImport(sheet) ==
    [kind |-> "import", caseId |-> 0, toUserName |-> EmptyStr,
     deadline |-> "", file |-> NoFile, users |-> users, actor |-> currentUser.name,
     cases |-> cases, sheet |-> sheet]

\* handleFileImport: the sheet is imported by reader.onload
HandleFileImport(sheet) ==
    /\ AdminIdle
    /\ Len(pending) < MaxPending
    /\ pending' = Append(pending, PendingImport(sheet))
    /\ alert' = NoAlert
    /\ UNCHANGED <<currentUser, users, cases, lastCaseId, uiVars>>
    /\ Persisted


\* TramitationModal offers the users other than the assignee of the case;
\* Zed stands for a name that users.find does not find
HandleTramitateCase(caseId, toUserName, deadline, file) ==
    /\ Idle
    /\ \E i \in Indices(cases) :
            cases[i].id = caseId /\ Shown(cases[i]) /\ cases[i].name # toUserName
    /\ IF file # NoFile /\ TooLarge(file)
       THEN /\ alert' = Msg("tooLarge", EmptyStr)
            /\ UNCHANGED <<cases, pending>>
       ELSE IF file # NoFile
       THEN /\ Len(pending) < MaxPending
            /\ pending' = Append(pending, PendingTramitation(caseId, toUserName, deadline, file))
            /\ alert' = NoAlert
            /\ UNCHANGED cases
       ELSE /\ ProcessTramitation(users, currentUser.name, caseId, toUserName,
                                  deadline, NoFile, "")
            /\ UNCHANGED pending
    /\ UNCHANGED <<currentUser, users, lastCaseId, uiVars>>
    /\ Persisted

HandleAddAttachment(caseId, file) ==
    /\ Idle
    /\ \E i \in Indices(cases) : cases[i].id = caseId /\ Shown(cases[i])
    /\ IF TooLarge(file)
       THEN /\ alert' = Msg("tooLarge", EmptyStr)
            /\ UNCHANGED pending
       ELSE /\ Len(pending) < MaxPending
            /\ pending' = Append(pending, PendingAttachment(caseId, file))
            /\ alert' = NoAlert
    /\ UNCHANGED <<currentUser, users, cases, lastCaseId, uiVars>>
    /\ Persisted

\* the updater attaching to every case when no case has the id
AttachedCasesOrAll(cs, caseId, att) ==
    [i \in Indices(cs) |->
        IF cs[i].id = caseId \/ caseId \notin CaseIds(cs)
        THEN [cs[i] EXCEPT !.attachments = Append(cs[i].attachments, att)]
        ELSE cs[i]]

\* the updater of handleAddAttachment's reader.onload
AttachedCases(cs, caseId, att) ==
    [i \in Indices(cs) |->
        IF cs[i].id = caseId
        THEN [cs[i] EXCEPT !.attachments = Append(cs[i].attachments, att)]
        ELSE cs[i]]

RemoveAt(s, k) == SubSeq(s, 1, k - 1) \o SubSeq(s, k + 1, Len(s))

\* reader.onload of the three handlers; content is event.target.result
ReaderOnLoad(k, content) ==
    /\ k \in Indices(pending)
    /\ LET p == pending[k] IN
        IF p.kind = "import"
        THEN IF content = ""
             THEN /\ alert' = Msg("importError", EmptyStr)
                  /\ UNCHANGED <<cases, lastCaseId>>
             ELSE HandleImportCases(p.cases, p.users, FileRows(p.sheet))
        ELSE IF content = ""
        THEN /\ alert' = Msg("readEmpty", EmptyStr)
             /\ UNCHANGED <<cases, lastCaseId>>
        ELSE IF p.kind = "tramitate"
        THEN /\ ProcessTramitation(p.users, p.actor, p.caseId, p.toUserName,
                                   p.deadline, p.file, content)
             /\ UNCHANGED lastCaseId
        ELSE /\ \A i \in Indices(cases) :
                    cases[i].id = p.caseId => Len(cases[i].attachments) < MaxAtt
             /\ cases' = AttachedCases(cases, p.caseId, NewAttachment(p.file, content, p.actor))
             /\ alert' = NoAlert
             /\ UNCHANGED lastCaseId
    /\ pending' = RemoveAt(pending, k)
    /\ UNCHANGED <<currentUser, users, uiVars>>
    /\ Persisted

\* reader.onerror; handleFileImport sets none, so a failed read of a sheet
\* ends without a message
ReaderOnError(k) ==
    /\ k \in Indices(pending)
    /\ alert' = IF pending[k].kind = "import" THEN NoAlert ELSE Msg("readError", EmptyStr)
    /\ pending' = RemoveAt(pending, k)
    /\ UNCHANGED <<currentUser, users, cases, lastCaseId, uiVars>>
    /\ Persisted

----------------------------------------------------------------------------
MaybeFiles == Files \cup {NoFile}

\* every operation, with the lean process numbers
Next ==
    \/ \E u \in {InitialUsers[i] : i \in Indices(InitialUsers)} : HandleLogin(u)
    \/ \E d \in Drafts(LeanNums) : HandleAddCase(d)
    \/ \E i \in 1..MaxCases : OpenEditModal(i)
    \/ CloseEditModal
    \/ \E pn \in LeanNums, nm \in NameInputs : SaveEditModal(pn, nm)
    \/ \E i \in 1..MaxCases, e \in RowEdits(LeanNums) : UpdateRow(i, e)
    \/ HandleEnableMultiEdit
    \/ HandleCancelMultiEdit
    \/ \E j \in 1..MaxCases, e \in MultiEdits : HandleMultiEditChange(j, e)
    \/ HandleSaveMultiEdit
    \/ \E id \in CaseIds(cases) : HandleDeleteCase(id)
    \/ \E ids \in SUBSET CaseIds(cases) : HandleDeleteMultipleCases(ids)
    \/ \E id \in CaseIds(cases), to \in TargetNames, dl \in Deadlines, f \in MaybeFiles :
            HandleTramitateCase(id, to, dl, f)
    \/ \E id \in CaseIds(cases), f \in Files : HandleAddAttachment(id, f)
    \/ \E k \in 1..MaxPending, content \in Contents : ReaderOnLoad(k, content)
    \/ \E k \in 1..MaxPending : ReaderOnError(k)
    \/ \E sheet \in LeanSheets : HandlePasteImport(sheet)

Spec == Init /\ [][Next]_vars

\* the two ways into handleImportCases and the operations that change the
\* process numbers of the store, with numbers that differ only in blanks
NextImport ==
    \/ \E u \in {InitialUsers[i] : i \in Indices(InitialUsers)} : HandleLogin(u)
    \/ \E d \in Drafts(NumInputs) : HandleAddCase(d)
    \/ \E i \in 1..MaxCases, pn \in NumInputs : UpdateRow(i, <<"processoNumero", pn>>)
    \/ \E id \in CaseIds(cases) : HandleDeleteCase(id)
    \/ \E sheet \in Sheets : HandlePasteImport(sheet)
    \/ \E sheet \in Sheets : HandleFileImport(sheet)
    \/ \E k \in 1..MaxPending, content \in Contents : ReaderOnLoad(k, content)
    \/ \E k \in 1..MaxPending : ReaderOnError(k)

SpecImport == Init /\ [][NextImport]_vars

\* pasted batches of up to MaxBatch rows against the stores that adding and
\* deleting cases produce
NextBatch ==
    \/ \E u \in {InitialUsers[i] : i \in Indices(InitialUsers)} : HandleLogin(u)
    \/ \E d \in Drafts(LeanNums) : HandleAddCase(d)
    \/ \E id \in CaseIds(cases) : HandleDeleteCase(id)
    \/ \E sheet \in SheetsOf(LeanNums, MaxBatch) : HandlePasteImport(sheet)

SpecBatch == Init /\ [][NextBatch]_vars

\* handleUpdateMultipleCases applied to lists of records against the stores
\* that adding, editing and deleting cases produce
NextMulti ==
    \/ \E u \in {InitialUsers[i] : i \in Indices(InitialUsers)} : HandleLogin(u)
    \/ \E d \in Drafts(LeanNums) : HandleAddCase(d)
    \/ \E i \in 1..MaxCases, e \in RowEdits(LeanNums) : UpdateRow(i, e)
    \/ \E id \in CaseIds(cases) : HandleDeleteCase(id)
    \/ \E updatedCases \in UpdateLists(cases) : HandleUpdateMultipleCases(updatedCases)

SpecMulti == Init /\ [][NextMulti]_vars

\* deletions against stores with active and archived cases, logs and
\* attachments
NextDelete ==
    \/ \E u \in {InitialUsers[i] : i \in Indices(InitialUsers)} : HandleLogin(u)
    \/ \E d \in Drafts(LeanNums) : HandleAddCase(d)
    \/ \E i \in 1..MaxCases, e \in { <<"status", ARCHIVED_STATUS_NAME>>, <<"status", StatusOpen>>,
                                  <<"name", Alice>> } : UpdateRow(i, e)
    \/ \E id \in CaseIds(cases), f \in Files : HandleAddAttachment(id, f)
    \/ \E k \in 1..MaxPending, content \in Contents : ReaderOnLoad(k, content)
    \/ \E k \in 1..MaxPending : ReaderOnError(k)
    \/ \E id \in CaseIds(cases) : HandleDeleteCase(id)
    \/ \E ids \in SUBSET (1..MaxId) : HandleDeleteMultipleCases(ids)

SpecDelete == Init /\ [][NextDelete]_vars

\* getDeadlineStatus on dates and statuses under clocks around a midnight
InitClassify ==
    /\ currentUser = NoUser
    /\ users = InitialUsers
    /\ cases = <<>>
    /\ lastCaseId = 0
    /\ pending = <<>>
    /\ editingCase = NoCase
    /\ isMultiEditMode = FALSE
    /\ draftCases = <<>>
    /\ modifiedCaseIds = {}
    /\ alert = NoAlert
    /\ clock \in Clocks
    /\ deadlineStatus = NoCall
    /\ database = NoDatabase
    /\ loaded = INITIAL_DATA
    /\ httpStatus = 0
    /\ localStorage = [users |-> JsonItem(InitialUsers), cases |-> JsonItem(StoredCases(<<>>))]

NextClassify ==
    \/ \E d \in DateInputs, st \in StatusInputs : RenderRow(d.text, st)
    \/ \E d \in DateInputs, st \in StatusInputs : RenderKpi(d.text, st)
    \/ Tick

SpecClassify == InitClassify /\ [][NextClassify]_vars

\* the table rendering the rows of the store after imports of sheets whose
\* lines have a status cell or none
RenderSheets == SheetsOf({ <<"1">>, <<"2", "\t", "o", "p", "e", "n">> }, MaxRows)

\* a render that throws takes the application down
Crashed == deadlineStatus.result = "TypeError"

\* the table renders row i of the store; the cases of the model carry no
\* dataFinal
RenderStoredRow(i) ==
    /\ LoggedIn
    /\ i \in Indices(cases)
    /\ Shown(cases[i])
    /\ deadlineStatus' =
            [fn |-> "Spreadsheet", dateString |-> Undefined, status |-> cases[i].status,
             now |-> clock.now, offset |-> clock.offset,
             result |-> GetDeadlineStatus(Undefined, cases[i].status,
                                          clock.now, clock.offset)]
    /\ UNCHANGED <<clock, appVars, dbVars>>

NextRender ==
    \/ \E u \in {InitialUsers[i] : i \in Indices(InitialUsers)} : ~Crashed /\ HandleLogin(u)
    \/ \E sheet \in LeanSheets : ~Crashed /\ HandlePasteImport(sheet)
    \/ \E sheet \in RenderSheets : ~Crashed /\ HandleFileImport(sheet)
    \/ \E k \in 1..MaxPending, content \in Contents : ~Crashed /\ ReaderOnLoad(k, content)
    \/ \E k \in 1..MaxPending : ~Crashed /\ ReaderOnError(k)
    \/ \E id \in CaseIds(cases) : ~Crashed /\ HandleDeleteCase(id)
    \/ \E i \in 1..MaxCases : ~Crashed /\ RenderStoredRow(i)

SpecRender == Init /\ [][NextRender]_vars

\* assignee changes by updateCase and by tramitation, against cases whose
\* co-responsible is set or has been cleared in the table
NextCoResponsible ==
    \/ \E u \in {InitialUsers[i] : i \in Indices(InitialUsers)} : HandleLogin(u)
    \/ \E d \in Drafts(LeanNums) : HandleAddCase(d)
    \/ \E i \in 1..MaxCases, e \in { <<"coResponsibleName", EmptyStr>>, <<"name", Alice>>,
                                  <<"name", Bob>> } : UpdateRow(i, e)
    \/ \E i \in 1..MaxCases : OpenEditModal(i)
    \/ CloseEditModal
    \/ \E pn \in LeanNums, nm \in NameInputs : SaveEditModal(pn, nm)
    \/ \E id \in CaseIds(cases), to \in TargetNames, dl \in Deadlines, f \in MaybeFiles :
            HandleTramitateCase(id, to, dl, f)
    \/ \E k \in 1..MaxPending, content \in Contents : ReaderOnLoad(k, content)
    \/ \E k \in 1..MaxPending : ReaderOnError(k)

SpecCoResponsible == Init /\ [][NextCoResponsible]_vars

\* saving and loading the snapshots of the stores that file imports and
\* deletions produce
NextPersist ==
    \/ \E u \in {InitialUsers[i] : i \in Indices(InitialUsers)} : HandleLogin(u)
    \/ \E sheet \in RenderSheets : HandleFileImport(sheet)
    \/ \E k \in 1..MaxPending, content \in Contents : ReaderOnLoad(k, content)
    \/ \E k \in 1..MaxPending : ReaderOnError(k)
    \/ \E id \in CaseIds(cases) : HandleDeleteCase(id)
    \/ PostSave(Snapshot)
    \/ GetDb

SpecPersist == Init /\ [][NextPersist]_vars

\* starting the App and the server over stored data that is whole, missing
\* or damaged
NextStartup ==
    \/ HandleLogin(InitialUsers[1])
    \/ HandlePasteImport(<< <<"1">> >>)
    \/ \E id \in CaseIds(cases) : HandleDeleteCase(id)
    \/ PostSave(Snapshot)
    \/ GetDb
    \/ DiskFault
    \/ \E content \in {"blank", "corrupt"} : DamageDatabase(content)
    \/ Reload
    \/ \E key \in {"users", "cases"}, kind \in {"none", "corrupt"} : Tamper(key, kind)

SpecStartup == Init /\ [][NextStartup]_vars

\* adding, importing and deleting cases across reloads of the page
NextRestart ==
    \/ \E u \in {InitialUsers[i] : i \in Indices(InitialUsers)} : HandleLogin(u)
    \/ \E d \in Drafts(LeanNums) : HandleAddCase(d)
    \/ \E sheet \in Sheets : HandlePasteImport(sheet)
    \/ \E id \in CaseIds(cases) : HandleDeleteCase(id)
    \/ Reload

SpecRestart == Init /\ [][NextRestart]_vars

\* tramitations, attachments and imports whose reads are in flight while
\* the administrator edits and deletes users and deletes cases
NextUsers ==
    \/ HandleLogin(InitialUsers[1])
    \/ \E d \in DraftsFor({ <<"1">> }, { Alice }) : HandleAddCase(d)
    \/ \E id \in CaseIds(cases), dl \in Deadlines, f \in MaybeFiles :
            HandleTramitateCase(id, Bob, dl, f)
    \/ \E id \in CaseIds(cases), f \in Files : HandleAddAttachment(id, f)
    \/ HandleFileImport(<< <<"2">> >>)
    \/ \E k \in 1..MaxPending, content \in Contents : ReaderOnLoad(k, content)
    \/ \E k \in 1..MaxPending : ReaderOnError(k)
    \/ \E id \in CaseIds(cases) : HandleDeleteCase(id)
    \/ \E i \in Indices(users), e \in { <<"name", Zed>>, <<"email", "b2@ms">>,
                                        <<"email", "al@ms">> } :
            users[i].id = 2 /\ HandleUpdateUser(UserEdit(users[i], e[1], e[2]))
    \/ HandleDeleteUser(2)

SpecUsers == Init /\ [][NextUsers]_vars

----------------------------------------------------------------------------
(* Properties *)

\* the step kept case i of the store as case j
SameCase(i, j) == cases[i].id = cases'[j].id

Collides(pn) ==
    \E i \in Indices(cases) : Trim(cases[i].processoNumero) = Trim(pn)

UnknownUser(us, nm) == \A i \in Indices(us) : us[i].name # nm

\* C1: in every reachable state no two cases of the store have the same
\* process number, compared after trimming.
C1_UniqueProcessNumbers ==
    \A i, j \in Indices(cases) :
        i # j => Trim(cases[i].processoNumero) # Trim(cases[j].processoNumero)

\* C2: addCase with a draft whose trimmed process number equals the trimmed
\* number of a stored case is rejected with an error and leaves the cases (and
\* the id counter) as they were; an accepted addCase grows the store by one
\* case and makes its number collide, so adding the same number twice grows
\* the store by one.
C2_AddCaseRejectsDuplicate ==
    [][\A d \in Drafts(NumInputs) :
        HandleAddCase(d) =>
            /\ Collides(d.processoNumero) =>
                /\ cases' = cases
                /\ lastCaseId' = lastCaseId
                /\ alert'.kind = "addDuplicate"
            /\ ~Collides(d.processoNumero) =>
                /\ Len(cases') = Len(cases) + 1
                /\ \E i \in Indices(cases') :
                      Trim(cases'[i].processoNumero) = Trim(d.processoNumero)]_vars

\* a draft ' 1' was rejected against the stored '1'
C2_Witness ==
    /\ alert.kind = "addDuplicate"
    /\ alert.arg = <<" ", "1">>
    /\ \E i \in Indices(cases) : cases[i].processoNumero = <<"1">>

\* C3: the tramitation log is append-only: for every case that exists before
\* and after a step, the log before the step is a prefix of the log after it.
C3_LogAppendOnly ==
    [][\A i \in Indices(cases), j \in Indices(cases') :
        SameCase(i, j) =>
            IsPrefix(cases[i].tramitationLog, cases'[j].tramitationLog)]_vars

\* C4: a step appends exactly one tramitation entry to a case when it changes
\* the assignee of the case, and none when it leaves the assignee unchanged.
C4_EntryExactlyOnAssigneeChange ==
    [][\A i \in Indices(cases), j \in Indices(cases') :
        SameCase(i, j) =>
            /\ cases[i].name # cases'[j].name =>
                Len(cases'[j].tramitationLog) = Len(cases[i].tramitationLog) + 1
            /\ cases[i].name = cases'[j].name =>
                Len(cases'[j].tramitationLog) = Len(cases[i].tramitationLog)]_vars

\* what an accepted updateCase with payload p does to the log of the stored
\* case: one entry from the acting user to the new assignee after the entries
\* of the stored case when the assignee of p differs, no entry otherwise
LoggedAsClaimed(p) ==
    \A i \in Indices(cases) :
        cases[i].id = p.id =>
            \E j \in Indices(cases') :
                /\ SameCase(i, j)
                /\ IF cases[i].name # p.name
                   THEN cases'[j].tramitationLog =
                            cases[i].tramitationLog \o
                                << [fromUser |-> currentUser.name,
                                    toUser |-> p.name,
                                    deadline |-> p.prazoDeterminado] >>
                   ELSE IsPrefix(cases'[j].tramitationLog, cases[i].tramitationLog)

Accepted(p) ==
    ~\E i \in Indices(cases) :
        cases[i].id # p.id /\ Trim(cases[i].processoNumero) = Trim(p.processoNumero)

\* (an accepted updateCase shows no message, starts no read and keeps the
\* number of cases: the steps that differ in these are not looked at further)
\* C5: updateCase whose payload differs from the stored case in the assignee
\* appends exactly one entry, from the acting user to the new assignee, after
\* the unchanged entries of the stored case; updateCase whose payload has the
\* assignee of the stored case appends no entry.
C5_UpdateCaseLogsAssigneeChange ==
    [][/\ editingCase # NoCase =>
            \A pn \in NumInputs, nm \in NameInputs :
                (SaveEditModal(pn, nm) /\ Accepted(FormData(editingCase, pn, nm)))
                    => LoggedAsClaimed(FormData(editingCase, pn, nm))
       /\ (Idle /\ alert' = NoAlert /\ pending' = pending /\ Len(cases') = Len(cases)) =>
            \A i \in Indices(cases), e \in RowEdits(NumInputs) :
                (UpdateRow(i, e) /\ Accepted(RowEdit(cases[i], e[1], e[2])))
                    => LoggedAsClaimed(RowEdit(cases[i], e[1], e[2]))]_vars

\* a case whose second entry was written by updateCase (it carries the
\* deadline of the payload) for a change of the assignee to 'Al'
C5_Witness ==
    \E i \in Indices(cases) :
        /\ Len(cases[i].tramitationLog) = 2
        /\ cases[i].tramitationLog[2] = Entry(Alice, Alice, "d0")
        /\ cases[i].name = Alice

\* C6: every case of the store has at least one tramitation entry.
C6_LogNeverEmpty ==
    \A i \in Indices(cases) : Len(cases[i].tramitationLog) >= 1

\* an imported case that was tramitated with an attachment afterwards
C6_Witness ==
    \E i \in Indices(cases) :
        /\ cases[i].tramitationLog[1].fromUser = ImportActor
        /\ Len(cases[i].tramitationLog) = 2
        /\ cases[i].attachments # <<>>

\* C7: tramitate naming a user that is not in the user list changes no case,
\* whether it runs within the call or after the read of an attachment.
C7_UnknownUserChangesNothing ==
    [][/\ \A id \in 1..MaxId, to \in TargetNames, dl \in Deadlines :
            (HandleTramitateCase(id, to, dl, NoFile) /\ UnknownUser(users, to))
                => (cases' = cases /\ alert'.kind = "userNotFound")
       /\ \A k \in 1..MaxPending, content \in Contents :
            (/\ ReaderOnLoad(k, content)
             /\ pending[k].kind = "tramitate"
             /\ UnknownUser(pending[k].users, pending[k].toUserName))
                => cases' = cases]_vars

C7_Witness ==
    /\ alert.kind = "userNotFound"
    /\ alert.arg = Zed
    /\ cases # <<>>

\* C8: tramitate with an attachment changes no case when it is called; a read
\* that fails or yields no content changes no case; a read that succeeds
\* appends the entry, sets assignee and email and appends the attachment in
\* one step, and changes no other case.
C8_AttachmentTramitationAtomic ==
    [][/\ \A id \in 1..MaxId, to \in TargetNames, dl \in Deadlines, f \in Files :
            HandleTramitateCase(id, to, dl, f) => cases' = cases
       /\ \A k \in 1..MaxPending :
            /\ ReaderOnError(k) => cases' = cases
            /\ ReaderOnLoad(k, "") => cases' = cases
            /\ (ReaderOnLoad(k, "data") /\ pending[k].kind = "tramitate") =>
                /\ Len(cases') = Len(cases)
                /\ \A i \in Indices(cases) :
                    IF /\ cases[i].id = pending[k].caseId
                       /\ ~UnknownUser(pending[k].users, pending[k].toUserName)
                    THEN /\ cases'[i].tramitationLog =
                                cases[i].tramitationLog \o
                                    << [fromUser |-> pending[k].actor,
                                        toUser |-> pending[k].toUserName,
                                        deadline |-> pending[k].deadline] >>
                         /\ cases'[i].name = pending[k].toUserName
                         /\ \E u \in Indices(pending[k].users) :
                                /\ pending[k].users[u].name = pending[k].toUserName
                                /\ cases'[i].email = pending[k].users[u].email
                         /\ Len(cases'[i].attachments) = Len(cases[i].attachments) + 1
                         /\ cases'[i].attachments[Len(cases'[i].attachments)].content = "data"
                         /\ IsPrefix(cases[i].attachments, cases'[i].attachments)
                    ELSE cases'[i] = cases[i]]_vars

\* a case tramitated to 'Al' with its attachment, and no read left
C8_Witness ==
    /\ pending = <<>>
    /\ alert = NoAlert
    /\ \E i \in Indices(cases) :
        /\ cases[i].name = Alice
        /\ Len(cases[i].tramitationLog) = 2
        /\ cases[i].tramitationLog[2] = Entry(Alice, Alice, "d1")
        /\ Len(cases[i].attachments) = 1

\* C9: tramitate and addAttachment reject a file of more than 2 * 1024 * 1024
\* bytes before any read: no read is pending afterwards that was not before
\* and no case changes; a file of exactly 2 * 1024 * 1024 bytes is accepted and
\* its read is started.
C9_SizeLimit ==
    [][/\ \A id \in 1..MaxId, to \in TargetNames, dl \in Deadlines, f \in Files :
            HandleTramitateCase(id, to, dl, f) =>
                /\ f.size > 2 * 1024 * 1024 =>
                    (pending' = pending /\ cases' = cases /\ alert'.kind = "tooLarge")
                /\ f.size = 2 * 1024 * 1024 =>
                    (Len(pending') = Len(pending) + 1 /\ pending'[Len(pending')].file = f)
       /\ \A id \in 1..MaxId, f \in Files :
            HandleAddAttachment(id, f) =>
                /\ f.size > 2 * 1024 * 1024 =>
                    (pending' = pending /\ cases' = cases /\ alert'.kind = "tooLarge")
                /\ f.size = 2 * 1024 * 1024 =>
                    (Len(pending') = Len(pending) + 1 /\ pending'[Len(pending')].file = f)]_vars

\* a file of 2 MB is being read and a larger one has just been rejected
C9_Witness ==
    /\ alert.kind = "tooLarge"
    /\ pending # <<>>
    /\ pending[1].file.size = 2 * 1024 * 1024

\* the classification the import is said to make of rows against the store
Classified(store, rows) ==
    LET inStore == {Trim(store[i].processoNumero) : i \in Indices(store)}
        num(r) == Trim(rows[r].processoNumero)
        IsSystemDuplicate(r) == num(r) # <<>> /\ num(r) \in inStore
        IsFirst(r) ==
            /\ num(r) # <<>>
            /\ num(r) \notin inStore
            /\ \A q \in 1..(r - 1) : num(q) # num(r)
        IsFileDuplicate(r) ==
            /\ num(r) # <<>>
            /\ num(r) \notin inStore
            /\ \E q \in 1..(r - 1) : num(q) = num(r)
        rowIndices == [r \in Indices(rows) |-> r]
    IN  [accepted |-> SelectSeq(rowIndices, IsFirst),
         system |-> SelectSeq(rowIndices, IsSystemDuplicate),
         inFile |-> SelectSeq(rowIndices, IsFileDuplicate)]

\* the step imported rows as classified against the store before the step
ImportedAsClaimed(rows) ==
    LET cl == Classified(cases, rows) IN
        /\ Len(cases') = Len(cases) + Len(cl.accepted)
        /\ SubSeq(cases', 1, Len(cases)) = cases
        /\ \A k \in Indices(cl.accepted) :
            cases'[Len(cases) + k].processoNumero = rows[cl.accepted[k]].processoNumero
        /\ alert'.n = Len(cl.accepted)
        /\ alert'.sys = [k \in Indices(cl.system) |-> Trim(rows[cl.system[k]].processoNumero)]
        /\ alert'.file = [k \in Indices(cl.inFile) |-> Trim(rows[cl.inFile[k]].processoNumero)]

\* C10: an import skips rows without a process number, reports a row whose
\* trimmed number is in the store before the import as a system duplicate,
\* otherwise reports a row whose number was accepted earlier in the batch as
\* an in-file duplicate, otherwise accepts it; the store afterwards is the
\* store before with the accepted cases appended in input order.
C10_ImportReconciles ==
    [][alert'.kind = "report" =>
        /\ \A sheet \in Sheets :
                HandlePasteImport(sheet)
                    => ImportedAsClaimed(WithNumber(SheetRows(sheet)))
        /\ \A k \in 1..MaxPending :
                (ReaderOnLoad(k, "data") /\ pending[k].kind = "import")
                    => ImportedAsClaimed(FileRows(pending[k].sheet))]_vars

\* the statement of C10 for the import that runs within the call
\* (PasteImportModal), where the cases the handler reads are the store
PasteImportReconciles ==
    [][(alert'.kind = "report" /\ pending' = pending) =>
        \A sheet \in Sheets :
            HandlePasteImport(sheet)
                => ImportedAsClaimed(WithNumber(SheetRows(sheet)))]_vars

\* the batch of C11, with '1' for P1 and '2' for P2, pasted in a store that
\* holds '2' and not '1'
Batch112 == << <<"1">>, <<"1">>, <<"2">> >>

PastesBatch112 ==
    /\ Collides(<<"2">>) /\ ~Collides(<<"1">>)
    /\ HandlePasteImport(Batch112)

\* C11: reconciling the batch ['1','1','2'] against a store that holds '2'
\* and not '1' accepts the first '1' (the store grows by exactly that case),
\* reports the second '1' as duplicate in the file and '2' as duplicate in
\* the system.
C11_BatchFirstOccurrenceAccepted ==
    [][PastesBatch112 =>
        /\ alert'.n = 1
        /\ Len(cases') = Len(cases) + 1
        /\ SubSeq(cases', 1, Len(cases)) = cases
        /\ cases'[Len(cases')].processoNumero = <<"1">>
        /\ alert'.file = << <<"1">> >>
        /\ alert'.sys = << <<"2">> >>]_vars

\* the store after the batch of C11: '2' from before, the first '1' imported
C11_Witness ==
    /\ alert = [kind |-> "report", arg |-> EmptyStr, n |-> 1,
                sys |-> << <<"2">> >>, file |-> << <<"1">> >>]
    /\ Len(cases) = 2
    /\ cases[1].processoNumero = <<"2">>
    /\ cases[2].processoNumero = <<"1">>
    /\ cases[2].tramitationLog[1].fromUser = ImportActor

\* C11 as stated: the same batch accepts no case, reports the second '1' as
\* duplicate in the file and '2' as duplicate in the system.
C11_BatchNothingAccepted ==
    [][PastesBatch112 =>
        /\ alert'.n = 0
        /\ cases' = cases
        /\ alert'.file = << <<"1">> >>
        /\ alert'.sys = << <<"2">> >>]_vars

\* another stored case has the trimmed process number of the payload
OtherCaseHasNumber(payload) ==
    \E j \in Indices(cases) :
        /\ cases[j].id # payload.id
        /\ Trim(cases[j].processoNumero) = Trim(payload.processoNumero)

\* C12: updateCase is rejected (error message, all cases as they were)
\* exactly when the trimmed process number of the payload is the trimmed
\* number of a stored case with another id; otherwise the payload replaces
\* the stored case, also when it keeps or only re-spaces the case's own
\* number.
C12_UpdateCaseRejectsCollision ==
    [][(pending' = pending /\ lastCaseId' = lastCaseId /\ Len(cases') = Len(cases)) =>
        \A i \in 1..MaxCases, pn \in NumInputs :
            UpdateRow(i, <<"processoNumero", pn>>) =>
                LET payload == RowEdit(cases[i], "processoNumero", pn) IN
                    /\ OtherCaseHasNumber(payload) =>
                        /\ alert'.kind = "updateDuplicate"
                        /\ cases' = cases
                    /\ ~OtherCaseHasNumber(payload) =>
                        /\ alert'.kind # "updateDuplicate"
                        /\ cases'[i] = payload
                        /\ \A j \in Indices(cases) : j # i => cases'[j] = cases[j]]_vars

\* the payload ' 1' for the case numbered '2' was rejected against the stored '1'
C12_Witness ==
    /\ alert.kind = "updateDuplicate"
    /\ alert.arg = <<" ", "1">>
    /\ Len(cases) = 2
    /\ cases[1].processoNumero = <<"1">>
    /\ cases[2].processoNumero = <<"2">>

\* the record of the list with the id of the stored case c, if there is one
Supplied(updatedCases, c) ==
    {updatedCases[j] : j \in {k \in Indices(updatedCases) : updatedCases[k].id = c.id}}

\* C13: updateMultiple keeps the number and the order of the stored cases,
\* replaces every stored case whose id is in the supplied list by the
\* supplied record, leaves every other stored case as it was, and inserts no
\* supplied record whose id is not in the store.
C13_UpdateMultipleFrame ==
    [][\A updatedCases \in UpdateLists(cases) :
        HandleUpdateMultipleCases(updatedCases) =>
            /\ Len(cases') = Len(cases)
            /\ \A i \in Indices(cases) :
                /\ cases'[i].id = cases[i].id
                /\ Supplied(updatedCases, cases[i]) # {}
                    => cases'[i] \in Supplied(updatedCases, cases[i])
                /\ Supplied(updatedCases, cases[i]) = {} => cases'[i] = cases[i]
            /\ CaseIds(cases') = CaseIds(cases)]_vars

\* a store of two cases after an updateMultiple that renamed the second one
\* (the assignee changed without a log entry) and left the first one alone
C13_Witness ==
    /\ Len(cases) = 2
    /\ cases[2].name = Alice
    /\ cases[2].tramitationLog[Len(cases[2].tramitationLog)].toUser = Bob
    /\ cases[1].name = Bob

\* the step removed exactly the cases with the ids given and nothing else
RemovedExactly(ids) ==
    /\ cases' = SelectSeq(cases, LAMBDA c : c.id \notin ids)
    /\ CaseIds(cases') = CaseIds(cases) \ ids
    /\ \A i \in Indices(cases) : cases[i].id \notin ids =>
            \E j \in Indices(cases') : cases'[j] = cases[i]
    /\ CaseIds(LoadFromLocalStorage(cases')) \cap ids = {}
    /\ CaseIds(ActiveCases(cases')) \cap ids = {}
    /\ CaseIds(ArchivedCases(cases')) \cap ids = {}
    /\ ActiveCases(cases') = SelectSeq(ActiveCases(cases), LAMBDA c : c.id \notin ids)
    /\ ArchivedCases(cases') = SelectSeq(ArchivedCases(cases), LAMBDA c : c.id \notin ids)

\* C14: deleteCase(id) and deleteMultiple(ids) remove exactly the cases with
\* the given ids: afterwards these are neither in the store, nor in the copy
\* in localStorage, nor in the active or the archived view, and every other
\* case, with its log and attachments, is as before and in the same order.
C14_DeleteRemovesExactly ==
    [][(pending' = pending /\ alert' = NoAlert /\ Len(cases') <= Len(cases)) =>
        /\ \A id \in CaseIds(cases) : HandleDeleteCase(id) => RemovedExactly({id})
        /\ \A ids \in SUBSET (1..MaxId) :
                HandleDeleteMultipleCases(ids) => RemovedExactly(ids)]_vars

\* an archived case with an attachment is what is left after the deletion
\* of the case created before it
C14_Witness ==
    /\ Len(cases) = 1
    /\ lastCaseId = 2
    /\ cases[1].id = 2
    /\ cases[1].status = ARCHIVED_STATUS_NAME
    /\ Len(cases[1].attachments) = 1
    /\ ActiveCases(cases) = <<>>
    /\ LoadFromLocalStorage(cases) = cases

\* the calendar day that the due date of the last classification names
DueDay == (CHOOSE d \in DateInputs : d.text = deadlineStatus.dateString).day

\* the local calendar day at the last classification
LocalToday == (deadlineStatus.now + deadlineStatus.offset) \div 24

\* the status of the last classification holds a terminal keyword
TerminalStatus == deadlineStatus.status \in StatusInputs \ {StatusOpen}

WasClassified == deadlineStatus.fn # "none"

\* C15: a classification returns Completed when the status holds a terminal
\* keyword in any case of letters, whatever the date; with another status
\* and a due date on a calendar day before today it returns Overdue.
C15_PastIsOverdueTerminalIsCompleted ==
    WasClassified =>
        /\ TerminalStatus => deadlineStatus.result = "completed"
        /\ (~TerminalStatus /\ DueDay # NaN /\ DueDay < LocalToday)
                => deadlineStatus.result = "overdue"

\* C16: with a status that is not terminal, a due date of today or later is
\* never Overdue: today and the 7 days after it are DueSoon, 8 days or more
\* after today are OnTrack, at any hour and any offset of the clock.
C16_TodayIsDueSoon ==
    (WasClassified /\ ~TerminalStatus /\ DueDay # NaN /\ DueDay >= LocalToday) =>
        /\ DueDay - LocalToday <= 7 => deadlineStatus.result = "due-soon"
        /\ DueDay - LocalToday >= 8 => deadlineStatus.result = "on-track"

\* C17: with a status that is not terminal, an absent, empty or unparseable
\* due date is classified Unset by each copy of the classifier, without an
\* error.
C17_NoDateIsUnset ==
    (WasClassified /\ ~TerminalStatus /\ DueDay = NaN)
        => deadlineStatus.result = "none"

\* the dashboard and the table both classified 'x' of an open case
C17_Witness ==
    /\ deadlineStatus.fn = "Kpi"
    /\ deadlineStatus.dateString = <<"x">>
    /\ deadlineStatus.status = StatusOpen
    /\ deadlineStatus.result = "none"

\* C18: classifying a case that an import put in the store never fails: also
\* for a case from a row without a status or a final-deadline value the
\* result is one of the five buckets.
C18_StoredRowsClassify ==
    deadlineStatus.fn = "Spreadsheet"
        => deadlineStatus.result \in {"completed", "overdue", "due-soon", "on-track", "none"}

\* C19: an assignee change by updateCase or by tramitation keeps a
\* co-responsible that is set, and makes the new assignee the co-responsible
\* of a case that has none; a case is created with its first assignee as
\* co-responsible.
C19_CoResponsibleRetained ==
    [][/\ \A i \in Indices(cases), j \in Indices(cases') :
            (SameCase(i, j) /\ cases[i].name # cases'[j].name) =>
                IF cases[i].coResponsibleName # EmptyStr
                THEN cases'[j].coResponsibleName = cases[i].coResponsibleName
                ELSE cases'[j].coResponsibleName = cases'[j].name
       /\ \A j \in Indices(cases') :
            cases'[j].id \notin CaseIds(cases)
                => cases'[j].coResponsibleName = cases'[j].name]_vars

\* one case kept its first assignee as co-responsible through an assignee
\* change; another, whose co-responsible had been cleared, took the new
\* assignee
C19_Witness ==
    /\ Len(cases) = 2
    /\ \E i \in Indices(cases) :
            /\ cases[i].name = Alice
            /\ cases[i].coResponsibleName = Bob
            /\ Len(cases[i].tramitationLog) = 2
    /\ \E j \in Indices(cases) :
            /\ cases[j].name = Alice
            /\ cases[j].coResponsibleName = Alice
            /\ cases[j].tramitationLog[1].toUser = Bob
            /\ Len(cases[j].tramitationLog) = 2

C21_LoadReturnsSavedOrDefaults ==
    [][/\ Reload =>
            /\ IF localStorage.cases.kind = "json"
               THEN cases' = JSONParse(localStorage.cases.text)
               ELSE cases' = <<>> /\ localStorage'.cases = JsonItem(StoredCases(<<>>))
            /\ IF localStorage.users.kind = "json"
               THEN users' = localStorage.users.text
               ELSE users' = InitialUsers /\ localStorage'.users = JsonItem(InitialUsers)
       /\ (GetDb /\ database.readable) =>
            IF database.exists /\ database.content = "json"
            THEN loaded' = ParseSnapshot(database.text)
            ELSE /\ loaded' = INITIAL_DATA
                 /\ database'.exists
                 /\ database'.content = "json"
                 /\ database'.text = StringifySnapshot(INITIAL_DATA)]_vars

\* C22: ids are handed out in increasing order and never twice. lastCaseId
\* is the highest id handed out so far: no step lowers it, every case that a
\* step puts into the store has an id above it, and the ids of the store are
\* pairwise distinct.
C22_IdsMonotonic ==
    [][/\ lastCaseId' >= lastCaseId
       /\ \A j \in Indices(cases') :
            cases'[j].id \notin CaseIds(cases) =>
                cases'[j].id > lastCaseId /\ cases'[j].id <= lastCaseId'
       /\ \A i, j \in Indices(cases') : i # j => cases'[i].id # cases'[j].id]_vars

\* C23: an addCase that is not rejected puts one case at the head of the
\* store and leaves the cases below it as they were. The new case has the
\* next id, the display id MST and the id in five digits, a log of the one
\* entry from the acting user to the draft's assignee with the draft's
\* deadline, and the draft's assignee as co-responsible.
C23_AddCaseBuildsTheCase ==
    [][\A d \in Drafts(LeanNums) :
        (HandleAddCase(d) /\ ~AddCollides(cases, d)) =>
            /\ Len(cases') = Len(cases) + 1
            /\ Tail(cases') = cases
            /\ cases'[1].id = lastCaseId + 1
            /\ Len(cases'[1].id2) = 8
            /\ SubSeq(cases'[1].id2, 1, 3) = <<"M", "S", "T">>
            /\ AllDigits(SubSeq(cases'[1].id2, 4, 8))
            /\ DigitsValue(SubSeq(cases'[1].id2, 4, 8)) = cases'[1].id
            /\ cases'[1].tramitationLog =
                    << [fromUser |-> currentUser.name, toUser |-> d.name,
                        deadline |-> d.prazoDeterminado] >>
            /\ cases'[1].coResponsibleName = d.name
            /\ cases'[1].name = d.name
            /\ cases'[1].processoNumero = d.processoNumero]_vars

\* a second case was added on top of the first
C23_Witness ==
    /\ Len(cases) = 2
    /\ cases[1].id = 2
    /\ cases[1].id2 = <<"M", "S", "T", "0", "0", "0", "0", "2">>
    /\ cases[1].tramitationLog = << Entry(Alice, Bob, "d0") >>
    /\ alert.kind = "created"

\* the case that a tramitation to toUserName must leave in place of c when
\* target is the user of that name, file and content are what was read (NoFile
\* for none) and the acting user is currentUser
Tramitated(c, target, toUserName, deadline, file, content) ==
    [c EXCEPT
        !.name = target.name,
        !.email = target.email,
        !.tramitationLog =
            Append(@, [fromUser |-> currentUser.name, toUser |-> toUserName,
                       deadline |-> deadline]),
        !.coResponsibleName = IF @ # EmptyStr THEN @ ELSE target.name,
        !.attachments =
            IF file = NoFile THEN @
            ELSE Append(@, [fileName |-> file.name, fileSize |-> file.size,
                            content |-> content, uploadedBy |-> currentUser.name])]

\* the store after such a tramitation of the case caseId
TramitatedStore(caseId, toUserName, deadline, file, content) ==
    [i \in Indices(cases) |->
        IF cases[i].id = caseId
        THEN Tramitated(cases[i], FindUser(users, toUserName), toUserName, deadline,
                        file, content)
        ELSE cases[i]]

\* C24: a tramitation of a case of the store to a user of the user list
\* appends one entry, makes that user's name and e-mail the assignee's,
\* keeps a co-responsible that was set, appends the attachment that was read,
\* and changes nothing else; both for the tramitation without a file and
\* for the one committed when the read of its file ends.
C24_TramitationChangesTheCase ==
    [][/\ \A id \in CaseIds(cases), to \in {Alice, Bob, Zed}, dl \in Deadlines :
            (HandleTramitateCase(id, to, dl, NoFile) /\ HasUser(users, to)) =>
                cases' = TramitatedStore(id, to, dl, NoFile, "")
       /\ \A k \in Indices(pending), content \in Contents \ {""} :
            (/\ ReaderOnLoad(k, content)
             /\ pending[k].kind = "tramitate"
             /\ pending[k].caseId \in CaseIds(cases)
             /\ HasUser(users, pending[k].toUserName)) =>
                cases' = TramitatedStore(pending[k].caseId, pending[k].toUserName,
                                         pending[k].deadline, pending[k].file, content)]_vars

\* C29: when a tramitation is committed to a case (the read of its file
\* ends and the case gets the entry), the user it goes to is in the user list.
C29_TargetUserExistsAtCommit ==
    [][\A k \in Indices(pending), content \in Contents \ {""} :
        (/\ ReaderOnLoad(k, content)
         /\ pending[k].kind = "tramitate"
         /\ \E i \in Indices(cases) :
                /\ cases[i].id = pending[k].caseId
                /\ cases'[i].tramitationLog # cases[i].tramitationLog) =>
            HasUser(users, pending[k].toUserName)]_vars

\* C30: the end of a read for a case that is no longer in the store leaves
\* the store as it is, whether the read ends with content, empty or in error.
C30_ReadForDeletedCaseChangesNothing ==
    [][\A k \in Indices(pending) :
        (/\ pending[k].kind \in {"tramitate", "attach"}
         /\ pending[k].caseId \notin CaseIds(cases)
         /\ (ReaderOnError(k) \/ \E content \in Contents : ReaderOnLoad(k, content))) =>
            /\ cases' = cases
            /\ lastCaseId' = lastCaseId
            /\ users' = users]_vars

\* a read is in flight for a case that was deleted while other cases are held
C30_Witness ==
    /\ pending # <<>>
    /\ pending[1].kind \in {"tramitate", "attach"}
    /\ pending[1].caseId \notin CaseIds(cases)
    /\ cases # <<>>

\* C25: attachments are append-only: a case that a step keeps has, after the
\* step, the attachments it had before as a prefix of its attachments.
C25_AttachmentsAppendOnly ==
    [][\A i \in Indices(cases), j \in Indices(cases') :
        cases[i].id = cases'[j].id =>
            IsPrefix(cases[i].attachments, cases'[j].attachments)]_vars

C27_GetDbAnswers ==
    [][GetDb =>
        IF database.exists /\ ~database.readable
        THEN httpStatus' = 500
        ELSE /\ httpStatus' = 200
             /\ (database.exists /\ database.content = "json") =>
                    loaded' = ParseSnapshot(database.text)]_vars

\* C28: the classifier of the table and the classifier of the two dashboards
\* (whose code is the same) return the same bucket for the date, status,
\* instant and offset of every classification.
C28_ClassifiersAgree ==
    WasClassified =>
        GetDeadlineStatus(deadlineStatus.dateString, deadlineStatus.status,
                          deadlineStatus.now, deadlineStatus.offset)
            = GetDeadlineStatusKpi(deadlineStatus.dateString, deadlineStatus.status,
                                   deadlineStatus.now, deadlineStatus.offset)

====
